---- MODULE Spec2Model ----
(***************************************************************************)
(* A model of the Jupyter kernel client of crackcomm/go-jupyter: the       *)
(* command path (Execute / Inspect / History over the shell socket), the   *)
(* routing table ioChannels, the drain loop pollIO over the iopub socket,  *)
(* the consumers of the output channels, and Close.                        *)
(***************************************************************************)
EXTENDS Integers, Sequences, FiniteSets, TLC

\* ------------------------------------------------------------------ bounds
\* Number of commands (Execute / Inspect / History calls) issued in a run.
MaxCmds == 2
\* Number of frame sets the iopub socket hands to the drain loop in a run.
MaxBroadcast == 3

\* --------------------------------------------------------- program constants
RequestExecute == "execute_request"
RequestInspect == "inspect_request"
RequestHistory == "history_request"
StateBusy == "busy"
StateIdle == "idle"

\* Message-ids of this client's commands (uuid.New(): unique per command).
Ids == 1..MaxCmds
\* Parent message-ids this client never issued: the empty parent header
\* (msg_id "") or a command of another client of the same kernel.
Unissued == {0}

VARIABLES
  pc,          \* pc[i]: position of the caller of command i
  op,          \* op[i]: msg_type of command i ("" before it is created)
  callErr,     \* callErr[i]: the error the call returned ("" for nil)
  replyOf,     \* replyOf[i]: id of the command whose reply call i was handed
  shellReq,    \* shell socket: the commands written to it whose replies
               \* no caller has received yet, oldest first
  ioChannels,  \* the routing table: message-id -> channel
  chClosed,    \* chClosed[ch]: channel ch has been closed
  closeCalls,  \* closeCalls[ch]: number of close(ch) executed (history)
  delivered,   \* delivered[ch]: what the consumer of ch received, in order
  idleDue,     \* ids whose idle status the kernel has broadcast and the
               \* iopub socket has not handed to pollIO yet
  received,    \* received[id]: the decoded notifications parented to id
               \* that iopub.Recv handed to pollIO, in order (history)
  pos,         \* number of frame sets pollIO has received
  pollPc,      \* position of the drain loop
  cur,         \* the message the drain loop is handling
  pollErr,     \* the error pollIO returned (NoErr for nil)
  ctxCancelled,\* cancel() was called by the goroutine that runs pollIO
  socketsClosed, \* Close has closed the shell and the iopub socket
  panic,       \* the Go runtime panic that ended the process ("" for none)
  ioChanLock,  \* the RWMutex of the routing table between steps: "" when
               \* nobody holds it, "R" when pollIO holds the read lock
  outCh,       \* outCh[i]: the channel call i returned to its caller (0: nil,
               \* or the call has not returned)
  cMsg,        \* codec: the Message handed to Encode
  cKey,        \* codec: the signing key
  cParts,      \* codec: the frame sequence handed to Decode
  cOut,        \* codec: what Decode returned
  cPc          \* codec: position of the codec run ("off" in a client run)

vars == <<pc, op, callErr, replyOf, shellReq, ioChannels, chClosed,
          closeCalls, delivered, idleDue, received, pos, pollPc, cur,
          pollErr, ctxCancelled, socketsClosed, panic, outCh,
          ioChanLock, cMsg, cKey, cParts, cOut, cPc>>

callVars == <<pc, op, callErr, replyOf, shellReq, outCh>>
codecVars == <<cMsg, cKey, cParts, cOut, cPc>>
lockVars == <<ioChanLock>>
chanVars == <<chClosed, closeCalls, delivered>>
pollVars == <<pos, pollPc, cur, pollErr, ctxCancelled>>
closeVars == <<socketsClosed>>

\* ------------------------------------------------------------ wire format
Delimiter == "<IDS|MSG>"

ErrInvalidSignature == "Invalid jupyter protocol signature"
ErrNotFound == "Target not found in parts"

\* Go's nil: a nil frame, a nil key, a nil map, a nil interface value.
Nil == "<nil>"

\* The bytes of a frame: a nil []byte has none.
Bytes(f) == IF f = Nil THEN "" ELSE f

\* What a header, a metadata map or a content can hold: "" is the zero
\* Header, the empty map, the empty object.
Atoms == {"", "a", "b"}

\* A content json.Marshal cannot serialize (a channel, a function).
Unserializable == "chan"

\* json.Marshal(v): a nil map or pointer gives null, a struct or a map an
\* object.
jsonMarshal(v) ==
  IF v = Unserializable THEN [err |-> "json: unsupported type", bytes |-> Nil]
  ELSE IF v = Nil THEN [err |-> "", bytes |-> "null"]
  ELSE [err |-> "", bytes |-> "{" \o v \o "}"]

\* json.Unmarshal(bytes, &target) where target holds zero: null leaves it,
\* an object is parsed, anything else is a syntax error.
jsonUnmarshal(bytes, zero) ==
  IF bytes = "null" THEN [err |-> "", val |-> zero]
  ELSE IF \E v \in Atoms : bytes = "{" \o v \o "}"
  THEN [err |-> "", val |-> CHOOSE v \in Atoms : bytes = "{" \o v \o "}"]
  ELSE IF bytes = "" THEN [err |-> "unexpected end of JSON input", val |-> zero]
  ELSE [err |-> "invalid character", val |-> zero]

\* json.Unmarshal(bytes, &raw) for a json.RawMessage: the bytes are kept
\* when they are valid JSON.
jsonUnmarshalRaw(bytes, zero) ==
  IF jsonUnmarshal(bytes, zero).err = ""
  THEN [err |-> "", val |-> bytes]
  ELSE [err |-> jsonUnmarshal(bytes, zero).err, val |-> zero]

\* hmac.New(sha256.New, key) written with data, then Sum: a digest that is
\* different for every (key, data).
Mac(signKey, data) == "hmac[" \o signKey \o "](" \o data \o ")"

\* hex.Encode of a digest.
Hex(digest) == "hex(" \o digest \o ")"

\* A character that follows a whole hex encoding.
OddTail == {"0", "z"}

\* hex.Decode(signature, sig) left digest in signature: its error is not
\* looked at, so a sig of odd length whose pairs are the digest's does too.
HexDecodesTo(sig, digest) ==
  \/ Bytes(sig) = Hex(digest)
  \/ \E c \in OddTail : Bytes(sig) = Hex(digest) \o c

\* The Message and RawMessage with zero fields.
ZeroMessage == [header |-> "", parent |-> "", metadata |-> Nil, content |-> Nil]

\* signMessage: the hex HMAC of the frames, written one after the other.
signMessage(parts, signKey) ==
  Hex(Mac(signKey, Bytes(parts[1]) \o Bytes(parts[2]) \o Bytes(parts[3])
                     \o Bytes(parts[4]) \o Bytes(parts[5])))

\* Message.Encode: six frames, the signature first and the last one never
\* written; a nil Content is not marshalled; the frames are signed when
\* signKey is not nil.
Encode(msg, signKey) ==
  LET h == jsonMarshal(msg.header)
      p == jsonMarshal(msg.parent)
      m == jsonMarshal(msg.metadata)
      c == IF msg.content = Nil THEN [err |-> "", bytes |-> Nil]
           ELSE jsonMarshal(msg.content)
      body == <<h.bytes, p.bytes, m.bytes, c.bytes, Nil>>
  IN IF c.err # "" THEN [err |-> c.err, parts |-> <<Nil>> \o body]
     ELSE IF signKey # Nil
     THEN [err |-> "", parts |-> <<signMessage(body, signKey)>> \o body]
     ELSE [err |-> "", parts |-> <<Nil>> \o body]

\* findIndex that reports the first frame when the target is missing.
findIndex_FirstWhenMissing(parts, target) ==
  IF \E i \in 1..Len(parts) : parts[i] = target
  THEN [index |-> CHOOSE i \in 1..Len(parts) :
                    /\ parts[i] = target
                    /\ \A j \in 1..(i - 1) : parts[j] # target,
        err |-> ""]
  ELSE [index |-> 1, err |-> ""]

\* findIndex: index of the first frame equal to target, 0 with an error.
findIndex(parts, target) ==
  IF \E i \in 1..Len(parts) : parts[i] = target
  THEN [index |-> CHOOSE i \in 1..Len(parts) :
                    /\ parts[i] = target
                    /\ \A j \in 1..(i - 1) : parts[j] # target,
        err |-> ""]
  ELSE [index |-> 0, err |-> ErrNotFound]

\* Fewer than five frames follow the frame at index.  A frame sequence is a
\* slice that is as long as its backing array: slicing or indexing it past
\* its end makes the Go runtime panic.
OutOfRange(parts, index) == Len(parts) < index + 5
PanicIndex == "panic: index out of range"

\* validateSignature that leaves the content frame out of the HMAC.
validateSignature_ThreeFrames(parts, index, signKey) ==
  IF signKey = Nil THEN ""
  ELSE IF OutOfRange(parts, index) THEN PanicIndex
  ELSE IF HexDecodesTo(parts[index + 1],
            Mac(signKey, Bytes(parts[index + 2]) \o Bytes(parts[index + 3])
                           \o Bytes(parts[index + 4])))
  THEN "" ELSE ErrInvalidSignature

\* validateSignature: nothing is compared when signKey is nil; otherwise the
\* HMAC of the four frames after the signature frame is compared with the
\* decoded signature frame.  The slice of the four frames panics when the
\* frame sequence ends before them.
validateSignature(parts, index, signKey) ==
  IF signKey = Nil THEN ""
  ELSE IF OutOfRange(parts, index) THEN PanicIndex
  ELSE IF HexDecodesTo(parts[index + 1],
            Mac(signKey, Bytes(parts[index + 2]) \o Bytes(parts[index + 3])
                           \o Bytes(parts[index + 4]) \o Bytes(parts[index + 5])))
  THEN "" ELSE ErrInvalidSignature

\* unmarshalParts: each of the four frames from startIndex that is not nil
\* is unmarshalled into its field; the first error ends it, the fields
\* before it filled.  Indexing a frame the sequence does not have panics.
unmarshalParts(parts, startIndex) ==
  LET fr(j) == parts[startIndex + j]
      past(j) == startIndex + j > Len(parts)
      h == IF past(0) THEN [err |-> PanicIndex, val |-> ""]
           ELSE IF fr(0) = Nil THEN [err |-> "", val |-> ""] ELSE jsonUnmarshal(fr(0), "")
      p == IF past(1) THEN [err |-> PanicIndex, val |-> ""]
           ELSE IF fr(1) = Nil THEN [err |-> "", val |-> ""] ELSE jsonUnmarshal(fr(1), "")
      m == IF past(2) THEN [err |-> PanicIndex, val |-> Nil]
           ELSE IF fr(2) = Nil THEN [err |-> "", val |-> Nil] ELSE jsonUnmarshal(fr(2), Nil)
      c == IF past(3) THEN [err |-> PanicIndex, val |-> Nil]
           ELSE IF fr(3) = Nil THEN [err |-> "", val |-> Nil] ELSE jsonUnmarshalRaw(fr(3), Nil)
  IN IF h.err # "" THEN [err |-> h.err, msg |-> ZeroMessage]
     ELSE IF p.err # "" THEN [err |-> p.err, msg |-> [ZeroMessage EXCEPT !.header = h.val]]
     ELSE IF m.err # ""
     THEN [err |-> m.err, msg |-> [ZeroMessage EXCEPT !.header = h.val, !.parent = p.val]]
     ELSE [err |-> c.err,
           msg |-> [header |-> h.val, parent |-> p.val, metadata |-> m.val,
                    content |-> c.val]]

\* RawMessage.Decode into a zero RawMessage: the error and the RawMessage.
RawMessage_Decode(parts, signKey) ==
  LET found == findIndex(parts, Delimiter) IN
  IF found.err # "" THEN [err |-> found.err, msg |-> ZeroMessage]
  ELSE IF validateSignature(parts, found.index, signKey) # ""
  THEN [err |-> validateSignature(parts, found.index, signKey), msg |-> ZeroMessage]
  ELSE unmarshalParts(parts, found.index + 2)

\* Message.Decode into a zero Message: the frames are decoded into a local
\* RawMessage, of which only Content is unmarshalled into the Message.
Message_Decode(parts, signKey) ==
  LET raw == RawMessage_Decode(parts, signKey) IN
  IF raw.err # "" THEN [err |-> raw.err, msg |-> ZeroMessage]
  ELSE LET c == jsonUnmarshal(Bytes(raw.msg.content), Nil) IN
       [err |-> c.err, msg |-> [ZeroMessage EXCEPT !.content = c.val]]

\* The key of the client: []byte(info.Key), which is never nil.
signKey == "k"

\* What sendRequest writes for msg: the delimiter, then Encode's frames.
Framed(msg, key) == <<Delimiter>> \o Encode(msg, key).parts

\* The frame set of a well-formed message signed with the client's key, one
\* without the delimiter, and one whose signature frame is not the HMAC of
\* its frames.
GoodParts == SubSeq(Framed([header |-> "a", parent |-> "a", metadata |-> "",
                            content |-> "a"], signKey), 1, 6)
NoDelimParts == Tail(GoodParts)
ForgedParts == [GoodParts EXCEPT ![2] = "forged"]

\* msg.Decode(body.Frames, client.signKey) in pollIO: the error ("" for nil).
Decode(parts) == RawMessage_Decode(parts, signKey).err

\* createTarget: the message types the drain loop can dispatch.
KnownTypes == {"stream", "display_data", "update_display_data", "clear_output",
               "execute_input", "execute_result", "error", "status"}

createTarget(msgType) ==
  IF msgType \in KnownTypes
  THEN [err |-> "", target |-> msgType]
  ELSE [err |-> "Unknown message type", target |-> ""]

\* parseContent: createTarget, then json.Unmarshal of the content into it.
\* body is "object" for a JSON object that fits the target and "mistyped"
\* for valid JSON that does not; state is the execution_state of a status.
parseContent(msgType, body, state) ==
  LET t == createTarget(msgType) IN
  IF t.err # "" THEN [err |-> t.err, type |-> "", state |-> ""]
  ELSE IF body # "object" THEN [err |-> "json: cannot unmarshal", type |-> "", state |-> ""]
  ELSE [err |-> "", type |-> t.target,
        state |-> IF t.target = "status" THEN state ELSE ""]

\* maybeShouldListen with every request type listed in its switch.
maybeShouldListen_AnyRequest(msgType) == msgType # ""

maybeShouldListen(msgType) == msgType = RequestExecute

\* --------------------------------------------------------- routing table
\* The channel addIOChannel makes for message-id id.  make(chan) is fresh on
\* every call and message-ids are unique, so the channel is named by its id.
NewChan(id) == id

\* getIOChannel that ignores the key and returns some entry of the table.
getIOChannel_AnyEntry(id) ==
  IF DOMAIN ioChannels # {}
  THEN [ch |-> ioChannels[CHOOSE k \in DOMAIN ioChannels :
                            \A j \in DOMAIN ioChannels : k >= j], ok |-> TRUE,
        lock |-> ""]
  ELSE [ch |-> 0, ok |-> FALSE, lock |-> ""]

\* getIOChannel without the deferred RUnlock.
getIOChannel_NoRUnlock(id) ==
  IF id \in DOMAIN ioChannels
  THEN [ch |-> ioChannels[id], ok |-> TRUE, lock |-> "R"]
  ELSE [ch |-> 0, ok |-> FALSE, lock |-> "R"]

\* getIOChannel: the lookup under the read lock, which the deferred RUnlock
\* releases when it returns: lock is the state it leaves the RWMutex in.
getIOChannel(id) ==
  IF id \in DOMAIN ioChannels
  THEN [ch |-> ioChannels[id], ok |-> TRUE, lock |-> ""]
  ELSE [ch |-> 0, ok |-> FALSE, lock |-> ""]

\* The table after client.ioChannels[id] = ch.
TablePut(id, ch) ==
  [k \in (DOMAIN ioChannels) \cup {id} |-> IF k = id THEN ch ELSE ioChannels[k]]

\* A delete that empties the table.
TableDelete_Clear(id) == <<>>

\* The table after delete(client.ioChannels, id).
TableDelete(id) ==
  [k \in (DOMAIN ioChannels) \ {id} |-> ioChannels[k]]

\* Channels in the table.
TableChans == {ioChannels[k] : k \in DOMAIN ioChannels}

\* ------------------------------------------------------------------ state
\* cur when the drain loop is between messages.
NoMsg == [parts |-> <<>>, type |-> "", state |-> "", parentId |-> 0,
          parentType |-> "", ch |-> 0, found |-> FALSE]

\* pollErr while pollIO runs, and when it returned nil.
NoErr == [msg |-> "", cause |-> ""]

ClientInit ==
  /\ pc = [i \in Ids |-> "new"]
  /\ op = [i \in Ids |-> ""]
  /\ callErr = [i \in Ids |-> ""]
  /\ replyOf = [i \in Ids |-> 0]
  /\ shellReq = <<>>
  /\ ioChannels = <<>>
  /\ chClosed = [i \in Ids |-> FALSE]
  /\ closeCalls = [i \in Ids |-> 0]
  /\ delivered = [i \in Ids |-> <<>>]
  /\ idleDue = {}
  /\ received = [i \in Ids |-> <<>>]
  /\ pos = 0
  /\ pollPc = "recv"
  /\ cur = NoMsg
  /\ pollErr = NoErr
  /\ ctxCancelled = FALSE
  /\ socketsClosed = FALSE
  /\ panic = ""
  /\ outCh = [i \in Ids |-> 0]
  /\ ioChanLock = ""

\* cOut before Decode returned.
NoOut == [decoder |-> "", err |-> "", msg |-> ZeroMessage]

\* The client after NewClient; no codec run is followed.
Init ==
  /\ ClientInit
  /\ cMsg = ZeroMessage
  /\ cKey = signKey
  /\ cParts = <<>>
  /\ cOut = NoOut
  /\ cPc = "off"

Alive == panic = ""

\* shell.Close() and iopub.Close() have run.
SocketsClosed == socketsClosed

\* Command i was written to the shell socket (the kernel has it).
Sent(i) == pc[i] \in {"sent", "done"} /\ callErr[i] # "send"

\* Message-ids are handed out in order (each createHeader draws a new one).
NextNew(i) == pc[i] = "new" /\ \A j \in Ids : j < i => pc[j] # "new"

\* ----------------------------------------------------------- command path
\* addIOChannel that stores nothing yet.
addIOChannel_NotYet(id) ==
  ioChannels' = ioChannels

\* addIOChannel: under the write lock, a fresh channel is stored under id.
addIOChannel(id) ==
  /\ ioChanLock = ""
  /\ ioChannels' = TablePut(id, NewChan(id))

\* Execute that hands its caller the channel only when request succeeded.
Execute_ch_NilOnError(i, err) ==
  IF op[i] = RequestExecute /\ err = "" THEN NewChan(i) ELSE 0

\* The named result ch call i returns with request's error err: Execute
\* assigned it from addIOChannel before request ran; Inspect and History
\* have no channel (0).
Execute_ch(i, err) ==
  IF op[i] = RequestExecute THEN NewChan(i) ELSE 0

\* sendRequest: Encode, then shell.SendMulti.  ok is whether the write
\* succeeded; the error is returned to the caller of request.
sendRequest(i, ok) ==
  IF ok
  THEN /\ shellReq' = Append(shellReq, i)
       /\ pc' = [pc EXCEPT ![i] = "sent"]
       /\ callErr' = callErr
       /\ outCh' = outCh
  ELSE /\ shellReq' = shellReq
       /\ pc' = [pc EXCEPT ![i] = "done"]
       /\ callErr' = [callErr EXCEPT ![i] = "send"]
       /\ outCh' = [outCh EXCEPT ![i] = Execute_ch(i, "send")]

\* The outcomes of a write on the shell socket: it can always fail, and it
\* fails once the socket is closed.
SendOutcomes == IF SocketsClosed THEN {FALSE} ELSE {TRUE, FALSE}

\* Execute, lines 268-269: createMessage and addIOChannel.
ExecuteRegister(i) ==
  /\ Alive
  /\ NextNew(i)
  /\ op' = [op EXCEPT ![i] = RequestExecute]
  /\ pc' = [pc EXCEPT ![i] = "registered"]
  /\ addIOChannel(i)
  /\ UNCHANGED <<codecVars, lockVars, callErr, outCh, replyOf, shellReq, chanVars, idleDue, received,
                 pollVars, closeVars, panic>>

\* Execute, line 270 up to the write: request calls sendRequest.
ExecuteSend(i) ==
  /\ Alive
  /\ pc[i] = "registered"
  /\ \E ok \in SendOutcomes : sendRequest(i, ok)
  /\ UNCHANGED <<codecVars, lockVars, op, replyOf, ioChannels, chanVars, idleDue, received,
                 pollVars, closeVars, panic>>

\* Inspect and History: createMessage, then request calls sendRequest.
\* Nothing is registered in the routing table.
InspectOrHistory(i) ==
  /\ Alive
  /\ NextNew(i)
  /\ \E t \in {RequestInspect, RequestHistory} : op' = [op EXCEPT ![i] = t]
  /\ \E ok \in SendOutcomes : sendRequest(i, ok)
  /\ UNCHANGED <<codecVars, lockVars, replyOf, ioChannels, chanVars, idleDue, received,
                 pollVars, closeVars, panic>>

\* recvReply, success: shell.Recv hands the caller the next reply on the
\* socket and Decode accepts it.  The kernel answers commands in the order
\* it got them, so the next reply is the reply to the oldest command still
\* unanswered.  No lock orders the callers and the reply is not matched
\* against the command: whichever caller is in Recv gets it.
recvReply(i) ==
  /\ Alive
  /\ pc[i] = "sent"
  /\ ~SocketsClosed
  /\ shellReq # <<>>
  /\ replyOf' = [replyOf EXCEPT ![i] = Head(shellReq)]
  /\ shellReq' = Tail(shellReq)
  /\ pc' = [pc EXCEPT ![i] = "done"]
  /\ outCh' = [outCh EXCEPT ![i] = Execute_ch(i, "")]
  /\ UNCHANGED <<codecVars, lockVars, op, callErr, ioChannels, chanVars, idleDue, received,
                 pollVars, closeVars, panic>>

\* recvReply, failure: shell.Recv returns an error and takes no reply off
\* the socket, or Decode rejects the reply it received.
recvReplyFail(i) ==
  /\ Alive
  /\ pc[i] = "sent"
  /\ \/ shellReq' = shellReq
     \/ /\ ~SocketsClosed
        /\ shellReq # <<>>
        /\ shellReq' = Tail(shellReq)
  /\ pc' = [pc EXCEPT ![i] = "done"]
  /\ callErr' = [callErr EXCEPT ![i] = "recv"]
  /\ outCh' = [outCh EXCEPT ![i] = Execute_ch(i, "recv")]
  /\ UNCHANGED <<codecVars, lockVars, op, replyOf, ioChannels, chanVars, idleDue, received,
                 pollVars, closeVars, panic>>

\* --------------------------------------------------------- broadcast side
\* A frame set on the iopub socket, with what its JSON frames hold.
Wire(parts, msgType, body, state, parentId, parentType) ==
  [parts |-> parts, msgType |-> msgType, body |-> body, state |-> state,
   parentId |-> parentId, parentType |-> parentType]

\* The parent headers a notification can carry: a command the kernel has
\* received from this client, the empty parent header, or an execute
\* request of another client of the same kernel.
Parents ==
  {[id |-> i, type |-> op[i]] : i \in {j \in Ids : Sent(j)}}
    \cup {[id |-> u, type |-> t] : u \in Unissued, t \in {"", RequestExecute}}

\* The idle status that ends the kernel's work on command i.
IdleOf(i) == Wire(GoodParts, "status", "object", StateIdle, i, op[i])

\* What iopub.Recv can hand to pollIO next, the idle statuses of this
\* client's commands apart: a well-formed notification of any parent, a
\* frame set without the delimiter, one with a signature that is not the
\* HMAC of its frames, and a status whose content does not fit.
Notifications ==
  ({Wire(GoodParts, k.type, "object", k.state, p.id, p.type) :
      k \in {[type |-> "status", state |-> StateBusy],
             [type |-> "status", state |-> StateIdle],
             [type |-> "execute_result", state |-> ""],
             [type |-> "comm_open", state |-> ""]},
      p \in Parents} \ {IdleOf(i) : i \in Ids})
    \cup {Wire(parts, "status", "object", StateIdle, u, "") :
            parts \in {NoDelimParts, ForgedParts}, u \in Unissued}
    \cup {Wire(GoodParts, "status", "mistyped", "", u, "") : u \in Unissued}

\* An idle status for command i was handed to pollIO.
IdleSeen(i) ==
  \E j \in 1..Len(received[i]) :
     received[i][j].type = "status" /\ received[i][j].state = StateIdle

\* Frame sets the socket can still produce in this run.
Room == pos + Cardinality(idleDue) < MaxBroadcast

\* The kernel broadcasts the idle status of a command it received: once per
\* command.  The frame set waits on the iopub socket until pollIO gets it
\* (a broadcast after Close closed the socket is never seen).
KernelIdle(i) ==
  /\ Alive
  /\ ~SocketsClosed
  /\ Sent(i)
  /\ i \notin idleDue
  /\ ~IdleSeen(i)
  /\ Room
  /\ idleDue' = idleDue \cup {i}
  /\ UNCHANGED <<codecVars, lockVars, callVars, ioChannels, chanVars, received, pollVars,
                 closeVars, panic>>

\* pollIO returns err; the goroutine NewClient started calls cancel() when
\* err is not nil.  msg is the message pollIO was handling.
pollReturn(err, msg) ==
  /\ pollPc' = "exited"
  /\ pollErr' = err
  /\ ctxCancelled' = (err # NoErr)
  /\ cur' = msg

\* route that pushes no status message onto the output channel.
route_SkipStatus(m, content) ==
  LET look == getIOChannel(m.parentId)
      msg == [parts |-> m.parts, type |-> content.type, state |-> content.state,
              parentId |-> m.parentId, parentType |-> m.parentType,
              ch |-> look.ch, found |-> look.ok]
  IN /\ ioChanLock' = look.lock
     /\ IF look.ok /\ content.type # "status"
        THEN /\ pollPc' = "send"
             /\ cur' = msg
             /\ UNCHANGED <<pollErr, ctxCancelled>>
        ELSE IF ~look.ok /\ maybeShouldListen(m.parentType)
        THEN pollReturn([msg |-> "Message dropped on empty channel",
                         cause |-> m.parentType], msg)
        ELSE /\ pollPc' = "after"
             /\ cur' = msg
             /\ UNCHANGED <<pollErr, ctxCancelled>>

\* What pollIO does with a message it decoded and dispatched: the lookup
\* under the read lock, then the push, the fatal return, or the drop.
route(m, content) ==
  LET look == getIOChannel(m.parentId)
      msg == [parts |-> m.parts, type |-> content.type, state |-> content.state,
              parentId |-> m.parentId, parentType |-> m.parentType,
              ch |-> look.ch, found |-> look.ok]
  IN /\ ioChanLock' = look.lock
     /\ IF look.ok
        THEN /\ pollPc' = "send"
             /\ cur' = msg
             /\ UNCHANGED <<pollErr, ctxCancelled>>
        ELSE IF maybeShouldListen(m.parentType)
        THEN pollReturn([msg |-> "Message dropped on empty channel",
                         cause |-> m.parentType], msg)
        ELSE /\ pollPc' = "after"
             /\ cur' = msg
             /\ UNCHANGED <<pollErr, ctxCancelled>>

\* What pollIO does with the dispatch result of a decoded message.
dispatch(m) ==
  LET content == parseContent(m.msgType, m.body, m.state) IN
  IF content.err # ""
  THEN ioChanLock' = ioChanLock /\ pollReturn([msg |-> "Error decoding a content", cause |-> content.err],
                  [parts |-> m.parts, type |-> "", state |-> "",
                   parentId |-> m.parentId, parentType |-> m.parentType,
                   ch |-> 0, found |-> FALSE])
  ELSE route(m, content)

\* handle that goes on with a frame set Decode rejected.
handle_IgnoreDecodeError(m) == dispatch(m)

\* What pollIO does with a frame set it received.
handle(m) ==
  IF Decode(m.parts) # ""
  THEN ioChanLock' = ioChanLock /\ pollReturn([msg |-> "Error decoding a message", cause |-> Decode(m.parts)],
                  [parts |-> m.parts, type |-> "", state |-> "", parentId |-> 0,
                   parentType |-> "", ch |-> 0, found |-> FALSE])
  ELSE dispatch(m)

\* The history of what the socket produced for each of this client's
\* commands: a frame set that decodes is recorded under its parent-id.
record(m) ==
  IF Decode(m.parts) = "" /\ m.parentId \in Ids
  THEN received' = [received EXCEPT ![m.parentId] =
                      Append(@, [type |-> m.msgType, state |-> m.state])]
  ELSE received' = received

\* A loop that pushes from a goroutine of its own and goes on receiving.
LoopAtRecv_PushDetached == pollPc \in {"recv", "send"}

\* The drain loop is at iopub.Recv: it is one goroutine, and it gets there
\* only when the push of the message before has completed.
LoopAtRecv == pollPc = "recv"

\* pollIO, lines 327-343: iopub.Recv hands over the next frame set the
\* kernel side broadcast; pollIO decodes it, dispatches its content and
\* looks its parent-id up.
PollRecv ==
  /\ Alive
  /\ LoopAtRecv
  /\ ~SocketsClosed
  /\ Room
  /\ pos' = pos + 1
  /\ \E m \in Notifications :
       /\ handle(m)
       /\ record(m)
  /\ UNCHANGED <<codecVars, callVars, ioChannels, chanVars, idleDue, closeVars, panic>>

\* pollIO, lines 327-343, when the frame set iopub.Recv hands over is the
\* idle status the kernel broadcast for command i.
PollRecvIdle(i) ==
  /\ Alive
  /\ LoopAtRecv
  /\ ~SocketsClosed
  /\ i \in idleDue
  /\ idleDue' = idleDue \ {i}
  /\ pos' = pos + 1
  /\ handle(IdleOf(i))
  /\ record(IdleOf(i))
  /\ UNCHANGED <<codecVars, callVars, ioChannels, chanVars, closeVars, panic>>

\* pollIO, lines 327-330 and 350: iopub.Recv fails; the loop breaks and
\* pollIO returns its named result, which the loop's own err shadows: nil.
PollRecvFail ==
  /\ Alive
  /\ LoopAtRecv
  /\ pollPc' = "exited"
  /\ UNCHANGED <<codecVars, lockVars, callVars, ioChannels, chanVars, idleDue, received, pos, cur, pollErr,
                 ctxCancelled, closeVars, panic>>

\* pollIO, line 340, with the receive of the consumer: the channel is
\* unbuffered, so the push completes when the caller that Execute gave the
\* channel to receives from it.
PollSend ==
  /\ Alive
  /\ pollPc = "send"
  /\ pc[cur.ch] = "done"
  /\ ~chClosed[cur.ch]
  /\ delivered' = [delivered EXCEPT ![cur.ch] =
                     Append(@, [type |-> cur.type, state |-> cur.state,
                                parentId |-> cur.parentId])]
  /\ pollPc' = "after"
  /\ UNCHANGED <<codecVars, lockVars, callVars, ioChannels, chClosed, closeCalls, idleDue, received,
                 pos, cur, pollErr, ctxCancelled, closeVars, panic>>

\* pollIO, line 340, on a channel that is closed: the Go runtime panics.
PollSendClosed ==
  /\ Alive
  /\ pollPc = "send"
  /\ chClosed[cur.ch]
  /\ panic' = "send on closed channel"
  /\ UNCHANGED <<codecVars, lockVars, callVars, ioChannels, chanVars, idleDue, received, pollVars, closeVars>>

\* deleteIOChannel: under the write lock, close the channel stored under id
\* if there is one, then delete the entry.  Closing a closed channel panics
\* before the delete.
deleteIOChannel(id) ==
  IF id \in DOMAIN ioChannels
  THEN LET ch == ioChannels[id] IN
       /\ closeCalls' = [closeCalls EXCEPT ![ch] = @ + 1]
       /\ IF chClosed[ch]
          THEN /\ panic' = "close of closed channel"
               /\ UNCHANGED <<chClosed, ioChannels>>
          ELSE /\ chClosed' = [chClosed EXCEPT ![ch] = TRUE]
               /\ ioChannels' = TableDelete(id)
               /\ panic' = panic
  ELSE UNCHANGED <<closeCalls, chClosed, ioChannels, panic>>

IsIdleStatus(msg) == msg.type = "status" /\ msg.state = StateIdle

\* pollIO, lines 345-348: an idle status closes and removes the entry of
\* its parent-id; then the loop goes round.
PollAfter ==
  /\ Alive
  /\ pollPc = "after"
  /\ IF IsIdleStatus(cur)
     THEN ioChanLock = "" /\ deleteIOChannel(cur.parentId)
     ELSE UNCHANGED <<closeCalls, chClosed, ioChannels, panic>>
  /\ pollPc' = "recv"
  /\ cur' = NoMsg
  /\ UNCHANGED <<codecVars, lockVars, callVars, delivered, idleDue, received, pos, pollErr,
                 ctxCancelled, closeVars>>

\* ------------------------------------------------------------------ Close
\* Close, lines 379-389, the deferred function: under the write lock every
\* channel in the table is closed; no entry is removed.  The map is ranged
\* over in an unspecified order, and close panics on the first channel that
\* is already closed: the open channels ranged over before it are closed.
closeAll ==
  LET open == {c \in TableChans : ~chClosed[c]}
      shut == {c \in TableChans : chClosed[c]}
  IN IF shut = {}
     THEN /\ chClosed' = [c \in Ids |-> chClosed[c] \/ c \in open]
          /\ closeCalls' = [c \in Ids |-> closeCalls[c] + (IF c \in open THEN 1 ELSE 0)]
          /\ panic' = panic
     ELSE \E before \in SUBSET open, hit \in shut :
          /\ chClosed' = [c \in Ids |-> chClosed[c] \/ c \in before]
          /\ closeCalls' = [c \in Ids |-> closeCalls[c]
                              + (IF c \in before \cup {hit} THEN 1 ELSE 0)]
          /\ panic' = "close of closed channel"

\* Close: shell.Close() and iopub.Close() (lines 391-392), then the deferred
\* function.  Nothing another goroutine does between the two depends on the
\* channels Close is about to close, so the call is one step.  Close can be
\* called again.
Close ==
  /\ Alive
  /\ socketsClosed' = TRUE
  /\ ioChanLock = ""
  /\ closeAll
  /\ UNCHANGED <<codecVars, lockVars, callVars, ioChannels, delivered, idleDue, received, pollVars>>

\* ---------------------------------------------------------- specification
Next ==
  \/ \E i \in Ids : ExecuteRegister(i)
  \/ \E i \in Ids : ExecuteSend(i)
  \/ \E i \in Ids : InspectOrHistory(i)
  \/ \E i \in Ids : recvReply(i)
  \/ \E i \in Ids : recvReplyFail(i)
  \/ \E i \in Ids : KernelIdle(i)
  \/ PollRecv
  \/ \E i \in Ids : PollRecvIdle(i)
  \/ PollRecvFail
  \/ PollSend
  \/ PollSendClosed
  \/ PollAfter
  \/ Close

Spec == Init /\ [][Next]_vars

\* Fairness: the drain loop goroutine and the callers keep running, the
\* kernel's replies and announced idle statuses arrive, and the consumer of
\* every channel keeps receiving.  Close, transport failures and the panics
\* they lead to are left out: LiveNext's behaviours are behaviours of Next.
LiveNext ==
  \/ \E i \in Ids : ExecuteRegister(i)
  \/ \E i \in Ids : ExecuteSend(i)
  \/ \E i \in Ids : InspectOrHistory(i)
  \/ \E i \in Ids : recvReply(i)
  \/ \E i \in Ids : KernelIdle(i)
  \/ PollRecv
  \/ \E i \in Ids : PollRecvIdle(i)
  \/ PollSend
  \/ PollAfter

FairSpec ==
  /\ Init
  /\ [][LiveNext]_vars
  /\ \A i \in Ids : WF_vars(ExecuteSend(i))
  /\ \A i \in Ids : WF_vars(recvReply(i))
  /\ \A i \in Ids : WF_vars(PollRecvIdle(i))
  /\ WF_vars(PollSend)
  /\ WF_vars(PollAfter)

\* ------------------------------------------------------------ codec runs
clientVars == <<lockVars, callVars, ioChannels, chanVars, idleDue, received, pollVars,
                closeVars, panic>>

\* The Messages and the keys of the codec runs: a nil, an empty and a
\* non-empty map, a nil, a serializable and an unserializable content; the
\* nil key, the empty key []byte("") and a secret.
CodecMsgs == [header : {"", "a"}, parent : {"", "a"}, metadata : {Nil, "", "a"},
              content : {Nil, "a", Unserializable}]
Keys == {Nil, "", "k"}

\* Frame sequences a socket can hand to Decode that no Encode produced.
RawFrames == {Nil, "{a}", "junk"}
RawInputs == {<<>>} \cup {<<f>> : f \in RawFrames}
               \cup {<<f, g>> : f, g \in RawFrames}

\* What a frame can be changed to on the way.
TamperFrames == {Nil, "", "{a}", "{b}", "null", "forged", "junk"}

CodecInit ==
  /\ ClientInit
  /\ cMsg \in CodecMsgs
  /\ cKey \in Keys
  /\ cParts = <<>>
  /\ cOut = NoOut
  /\ cPc = "start"

\* msg.Encode(signKey).
CodecEncode ==
  /\ cPc = "start"
  /\ LET e == Encode(cMsg, cKey) IN
       /\ cParts' = e.parts
       /\ IF e.err # ""
          THEN cPc' = "failed" /\ cOut' = [decoder |-> "", err |-> e.err, msg |-> ZeroMessage]
          ELSE cPc' = "encoded" /\ cOut' = cOut
  /\ UNCHANGED <<clientVars, cMsg, cKey>>

\* sendRequest, lines 303-308: the delimiter frame, then Encode's frames.
CodecSend ==
  /\ cPc = "encoded"
  /\ cParts' = <<Delimiter>> \o cParts
  /\ cPc' = "framed"
  /\ UNCHANGED <<clientVars, cMsg, cKey, cOut>>

\* The signature frames that are not the hex HMAC of the content frames of
\* parts under key but look like it: one and two more characters, and the
\* encoding cut short.
SigVariants(parts, key) ==
  LET sig == Hex(Mac(key, Bytes(parts[3]) \o Bytes(parts[4]) \o Bytes(parts[5])
                            \o Bytes(parts[6])))
  IN {sig \o c : c \in OddTail} \cup {sig \o "00", "hex(" \o "hmac[" \o key}

\* One frame of the written frame set is changed before it is decoded.
CodecTamper ==
  /\ cPc = "framed"
  /\ \E j \in 1..6 :
       \E v \in TamperFrames
                  \cup (IF j = 2 /\ cKey # Nil
                        THEN SigVariants(cParts, cKey) ELSE {}) :
          /\ v # cParts[j]
          /\ cParts' = [cParts EXCEPT ![j] = v]
  /\ cPc' = "tampered"
  /\ UNCHANGED <<clientVars, cMsg, cKey, cOut>>

\* Frame sequences that end less than five frames after the delimiter.
ShortInputs == {<<Delimiter>>, <<Delimiter, Nil>>, <<Delimiter, Nil, "junk">>,
                <<Delimiter, Nil, "{a}", "{a}">>,
                <<"junk", Delimiter, Nil, "{a}", "{a}", "{}">>}

\* The written frame set loses its last frames on the way.
CodecTruncate ==
  /\ cPc = "framed"
  /\ \E n \in 1..5 : cParts' = SubSeq(cParts, 1, n)
  /\ cPc' = "truncated"
  /\ UNCHANGED <<clientVars, cMsg, cKey, cOut>>

\* A frame sequence arrives that no Encode produced.
CodecRecv ==
  /\ cPc = "start"
  /\ cParts' \in RawInputs \cup ShortInputs
  /\ cPc' = "received"
  /\ UNCHANGED <<clientVars, cMsg, cKey, cOut>>

\* msg.Decode(parts, signKey) with a zero Message or RawMessage.
CodecDecode(decoder) ==
  /\ cPc \in {"encoded", "framed", "tampered", "truncated", "received"}
  /\ LET r == IF decoder = "Message" THEN Message_Decode(cParts, cKey)
              ELSE RawMessage_Decode(cParts, cKey)
     IN cOut' = [decoder |-> decoder, err |-> r.err, msg |-> r.msg]
  /\ cPc' = "decoded"
  /\ UNCHANGED <<clientVars, cMsg, cKey, cParts>>

CodecNext ==
  \/ CodecEncode
  \/ CodecSend
  \/ CodecTamper
  \/ CodecTruncate
  \/ CodecRecv
  \/ \E decoder \in {"Message", "RawMessage"} : CodecDecode(decoder)

CodecSpec == CodecInit /\ [][CodecNext]_vars

\* ------------------------------------------------------------ properties
\* Command i is an Execute that has registered its channel.
IsExecute(i) == op[i] = RequestExecute

\* Execute i returned without an error: the caller holds the reply and the
\* output channel.
ExecAnswered(i) == IsExecute(i) /\ pc[i] = "done" /\ callErr[i] = ""

\* s is a prefix of t.
IsPrefix(s, t) == Len(s) <= Len(t) /\ \A j \in 1..Len(s) : s[j] = t[j]

\* What the consumer got, without the parent-ids.
Payloads(d) == [j \in 1..Len(d) |-> [type |-> d[j].type, state |-> d[j].state]]

\* C1: every notification is delivered only on the channel registered for
\* its own parent-id, and what a command's channel delivered is, in order,
\* a prefix of the notifications the socket produced for that command.
C1_RoutingIsolationFifo ==
  \A id \in Ids :
     LET d == delivered[NewChan(id)] IN
     /\ \A j \in 1..Len(d) : d[j].parentId = id
     /\ IsPrefix(Payloads(d), received[id])

\* C1 witness: two commands have notifications delivered, one of them two.
C1_Witness ==
  \E a, b \in Ids :
     a # b /\ Len(delivered[a]) >= 2 /\ Len(delivered[b]) >= 1

\* C2: when the drain loop processes an idle status whose parent-id has an
\* entry, the channel is closed exactly once and the entry is removed.
C2_TerminalClose ==
  [][(PollAfter /\ IsIdleStatus(cur) /\ cur.parentId \in DOMAIN ioChannels)
       => /\ cur.parentId \notin DOMAIN ioChannels'
          /\ chClosed'[ioChannels[cur.parentId]]
          /\ closeCalls'[ioChannels[cur.parentId]] = 1]_vars

\* C3: when Execute returns an error, the routing table holds no entry for
\* its command.
C3_LeakFreedom ==
  \A i \in Ids :
     (IsExecute(i) /\ pc[i] = "done" /\ callErr[i] # "") => i \notin DOMAIN ioChannels

\* The scenario of C4 for command i: Execute was answered, the socket
\* produced status busy, execute_result, status idle for it and nothing
\* else, and the drain loop has processed the idle status.
C4_Scenario(i) ==
  /\ ExecAnswered(i)
  /\ received[i] = <<[type |-> "status", state |-> StateBusy],
                     [type |-> "execute_result", state |-> ""],
                     [type |-> "status", state |-> StateIdle]>>
  /\ i \notin DOMAIN ioChannels

\* C4 as claimed: in the scenario the channel yields exactly the
\* execute_result message and is closed.
C4_OnlyExecuteResult ==
  \A i \in Ids :
     C4_Scenario(i) =>
       /\ Payloads(delivered[i]) = <<[type |-> "execute_result", state |-> ""]>>
       /\ chClosed[i]

\* C4 as amended: in the scenario the channel yields status busy, the
\* execute_result and status idle, in that order, and is closed.
C4_StatusDeliveredToo ==
  \A i \in Ids :
     C4_Scenario(i) =>
       /\ Payloads(delivered[i]) = received[i]
       /\ chClosed[i]

\* C4 witness: the scenario has run to its end.
C4_Witness == \E i \in Ids : C4_Scenario(i)

\* C5: once an Execute is answered and the kernel has broadcast the idle
\* status of its command, the channel is eventually closed, which is what
\* the caller ranging over it observes.
C5_EventuallyClosed ==
  \A i \in Ids : (ExecAnswered(i) /\ (i \in idleDue \/ IdleSeen(i))) ~> chClosed[i]

\* C6: at most one command is between its send and its receive, and each
\* caller is handed the reply to its own command.
C6_CommandSerialization ==
  /\ Cardinality({i \in Ids : pc[i] = "sent"}) <= 1
  /\ \A i \in Ids : replyOf[i] \in {0, i}

\* C7: Close closes every channel of the routing table.
C7_CloseClosesAll ==
  [][Close => \A id \in DOMAIN ioChannels : chClosed'[ioChannels[id]]]_vars

\* C8: an unknown message type does not end the drain loop.
C8_UnknownTypeNonFatal ==
  ~(pollPc = "exited" /\ pollErr.cause = "Unknown message type")

\* The drain loop has a decoded and dispatched message with no entry.
Orphan(msg, err) ==
  /\ msg # NoMsg
  /\ err.msg \notin {"Error decoding a message", "Error decoding a content"}
  /\ ~msg.found

\* C9: a decoded message without an entry ends the loop if and only if its
\* parent type is the execute request; any other one is dropped, and the
\* loop goes on to the next message without touching the table.
C9_OrphanPolicy ==
  [][/\ (PollRecv \/ \E i \in Ids : PollRecvIdle(i)) /\ Orphan(cur', pollErr')
          => IF cur'.parentType = RequestExecute
             THEN pollPc' = "exited" /\ ctxCancelled'
                  /\ pollErr'.msg = "Message dropped on empty channel"
             ELSE pollPc' = "after" /\ pollErr' = NoErr
     /\ (PollAfter /\ ~cur.found)
          => pollPc' = "recv" /\ panic' = "" /\ ioChannels' = ioChannels]_vars

\* C9 witness: a notification parented to an Inspect of this client was
\* dropped and the loop is going on.
C9_Witness ==
  /\ pollPc = "after"
  /\ ~cur.found
  /\ cur.parentType = RequestInspect

\* C10: a frame set that fails to decode ends the drain loop and cancels the
\* context, and nothing is received or delivered afterwards.
C10_DecodeFailureFatal ==
  /\ [](cur # NoMsg /\ Decode(cur.parts) # ""
          => /\ pollPc = "exited"
             /\ ctxCancelled
             /\ pollErr.msg = "Error decoding a message")
  /\ [][pollErr.msg = "Error decoding a message"
          => /\ pollPc' = "exited"
             /\ pos' = pos
             /\ delivered' = delivered]_vars

\* C10 witness: the loop ended on a decode failure while a command's entry
\* was in the table with its channel open.
C10_Witness ==
  /\ pollErr.msg = "Error decoding a message"
  /\ \E i \in DOMAIN ioChannels : ~chClosed[ioChannels[i]] /\ pc[i] = "done"

\* C12: an Execute that has returned, with or without an error, returned
\* the channel it registered, which is not nil.
C12_ChannelAlwaysReturned ==
  \A i \in Ids :
     (IsExecute(i) /\ pc[i] = "done") => outCh[i] # 0 /\ outCh[i] = NewChan(i)

\* C12 witness: an Execute returned an error and its channel.
C12_Witness ==
  \E i \in Ids : IsExecute(i) /\ pc[i] = "done" /\ callErr[i] # "" /\ outCh[i] # 0

\* C13: while the push of a notification is pending, nothing is received
\* from the iopub socket and nothing is delivered on any channel but that
\* notification on its own channel, after which the loop goes on.
C13_Backpressure ==
  [][pollPc = "send"
       => /\ pos' = pos
          /\ received' = received
          /\ idleDue \subseteq idleDue'
          /\ pollPc' \in {"send", "after"}
          /\ delivered' # delivered
               => /\ pollPc' = "after"
                  /\ delivered' = [delivered EXCEPT ![cur.ch] =
                                     Append(@, [type |-> cur.type, state |-> cur.state,
                                                parentId |-> cur.parentId])]]_vars

\* C13 witness: a push is pending while the idle status of another command
\* waits on the iopub socket.
C13_Witness ==
  /\ pollPc = "send"
  /\ \E i \in idleDue : i # cur.parentId /\ i \in DOMAIN ioChannels

\* The message a codec run encoded and sendRequest framed reached Decode
\* as it was written.
RoundTrip == cPc = "decoded" /\ cParts = Framed(cMsg, cKey)

\* The decoded message m equals the encoded one, the content compared by
\* what it unmarshals to.
SameMessage(m, decoder) ==
  /\ m.header = cMsg.header
  /\ m.parent = cMsg.parent
  /\ m.metadata = cMsg.metadata
  /\ IF decoder = "RawMessage"
     THEN IF m.content = Nil THEN cMsg.content = Nil
          ELSE jsonUnmarshal(m.content, Nil).val = cMsg.content
     ELSE m.content = cMsg.content

\* C14: for every Message that can be encoded and every key, decoding what
\* was encoded succeeds and gives the Message back.
C14_RoundTrip ==
  RoundTrip => cOut.err = "" /\ SameMessage(cOut.msg, cOut.decoder)

\* Exactly one of the four content frames reached Decode with other bytes
\* than were written.
OneContentFrameChanged ==
  /\ cPc = "decoded"
  /\ Len(cParts) = 7
  /\ \E j \in 3..6 :
       /\ Bytes(cParts[j]) # Bytes(Framed(cMsg, cKey)[j])
       /\ \A k \in 1..7 : k # j => cParts[k] = Framed(cMsg, cKey)[k]

\* C15: with a non-empty key, a frame set of which one content frame was
\* changed after encoding is rejected with the invalid-signature error and
\* no message is returned.
C15_SignatureRejection ==
  (OneContentFrameChanged /\ cKey \notin {Nil, ""})
     => cOut.err = ErrInvalidSignature /\ cOut.msg = ZeroMessage

\* C15 witness: the content frame was changed to another object and the
\* frame set was given to Message.Decode with the secret key.
C15_Witness ==
  /\ OneContentFrameChanged
  /\ cKey = "k"
  /\ cParts[6] = "{b}"
  /\ cOut.decoder = "Message"

\* C16: with the empty key Encode leaves the signature frame empty and
\* Decode rejects no frame set for its signature.
C16_UnsignedTolerance ==
  cKey = "" =>
    /\ cPc \in {"encoded", "framed"} => Bytes(cParts[Len(cParts) - 5]) = ""
    /\ cPc = "decoded" => cOut.err # ErrInvalidSignature

\* C17: a frame sequence without the delimiter frame is answered with the
\* not-found error and no message, whatever the key.
C17_MissingDelimiter ==
  (cPc = "decoded" /\ \A j \in 1..Len(cParts) : cParts[j] # Delimiter)
     => cOut.err = ErrNotFound /\ cOut.msg = ZeroMessage

\* C17 witness: a written frame set lost its delimiter frame and was
\* decoded with a key.
C17_Witness ==
  /\ cPc = "decoded"
  /\ Len(cParts) = 7
  /\ cParts[1] # Delimiter
  /\ cKey = "k"

\* C18: when an Execute writes its command to the shell socket the entry of
\* its message-id is in the table, and the first notification parented to
\* it that the drain loop looks up finds the entry.
C18_RegisterBeforeTransmit ==
  [][\A i \in Ids :
       /\ (IsExecute(i) /\ ~Sent(i) /\ Sent(i)') => i \in DOMAIN ioChannels
       /\ (IsExecute(i) /\ received[i] = <<>> /\ received'[i] # <<>>
             /\ pollErr'.msg # "Error decoding a content")
            => cur'.found /\ cur'.ch = NewChan(i)]_vars

\* C18 witness: the first notification of an Execute was looked up before
\* the Execute returned.
C18_Witness ==
  \E i \in Ids : IsExecute(i) /\ pc[i] = "sent" /\ Len(received[i]) = 1 /\ cur.found

\* C19: when Close returns the routing table is empty.
C19_CloseRemovesEntries ==
  [][(Close /\ panic' = "") => DOMAIN ioChannels' = {}]_vars

\* C20: no channel is closed twice and nothing is pushed onto a closed
\* channel: the process never panics.
C20_NoChannelPanic ==
  /\ panic = ""
  /\ \A c \in Ids : closeCalls[c] <= 1

\* The frame sequence Decode was given has the delimiter and ends less than
\* five frames after it.
ShortFrameSet ==
  /\ cPc = "decoded"
  /\ findIndex(cParts, Delimiter).err = ""
  /\ OutOfRange(cParts, findIndex(cParts, Delimiter).index)

\* C21: a frame sequence that ends less than five frames after the delimiter
\* is answered with an error, whatever the key, and never with a panic.
C21_ShortFrameSet ==
  ShortFrameSet => cOut.err # "" /\ cOut.err # PanicIndex

\* The frame set Decode was given is whole, its signature is accepted, its
\* header frames are well-formed, and its metadata frame or its content
\* frame has no bytes, the other one none or a well-formed object.
AbsentFrames ==
  /\ cPc = "decoded"
  /\ Len(cParts) >= 6
  /\ cParts[1] = Delimiter
  /\ validateSignature(cParts, 1, cKey) = ""
  /\ \A j \in {3, 4} : jsonUnmarshal(Bytes(cParts[j]), "").err = ""
  /\ \A j \in {5, 6} :
       Bytes(cParts[j]) = "" \/ jsonUnmarshal(cParts[j], Nil).err = ""
  /\ \E j \in {5, 6} : Bytes(cParts[j]) = ""

\* C22: a frame set whose metadata or content frame is absent or empty is
\* decoded without an error by both decoders, the field left at zero.
C22_AbsentFramesTolerated ==
  AbsentFrames =>
    /\ cOut.err = ""
    /\ Bytes(cParts[5]) = "" => cOut.msg.metadata = Nil
    /\ Bytes(cParts[6]) = "" => cOut.msg.content = Nil

\* C23: with a non-empty key, a frame set whose signature frame is not the
\* hex HMAC of its four content frames is rejected with the
\* invalid-signature error.
C23_MalformedSignatureRejected ==
  (/\ cPc = "decoded"
   /\ cKey \notin {Nil, ""}
   /\ Len(cParts) >= 6
   /\ cParts[1] = Delimiter
   /\ Bytes(cParts[2]) # Hex(Mac(cKey, Bytes(cParts[3]) \o Bytes(cParts[4])
                                         \o Bytes(cParts[5]) \o Bytes(cParts[6]))))
     => cOut.err = ErrInvalidSignature

\* C24: while a push is pending the drain loop does not hold the lock of
\* the routing table: a new command can register and Close can run.
C24_NoLockWhilePushing ==
  (pollPc = "send" /\ Alive) =>
    /\ ioChanLock = ""
    /\ \A i \in Ids : NextNew(i) => ENABLED ExecuteRegister(i)
    /\ ENABLED Close

\* C24 witness: a notification of a command waits to be pushed onto its
\* channel, whose consumer does not have the channel yet, and another
\* command can be issued.
C24_Witness ==
  /\ pollPc = "send"
  /\ Alive
  /\ pc[cur.ch] # "done"
  /\ \E i \in Ids : NextNew(i)

\* A step of the drain loop.
DrainStep ==
  \/ PollRecv
  \/ \E i \in Ids : PollRecvIdle(i)
  \/ PollRecvFail
  \/ PollSend
  \/ PollSendClosed
  \/ PollAfter

\* The entry of command b, its channel's open or closed state and what the
\* channel delivered are the same after the step.
Untouched(b) ==
  /\ (b \in DOMAIN ioChannels) = (b \in DOMAIN ioChannels')
  /\ b \in DOMAIN ioChannels => ioChannels'[b] = ioChannels[b]
  /\ chClosed'[NewChan(b)] = chClosed[NewChan(b)]
  /\ closeCalls'[NewChan(b)] = closeCalls[NewChan(b)]
  /\ delivered'[NewChan(b)] = delivered[NewChan(b)]

\* C25: a step of the drain loop on a notification parented to command A
\* leaves the entry and the channel of every other command as they were.
C25_RoutingFrame ==
  [][DrainStep =>
       \A b \in Ids :
          (b # cur.parentId \/ pollPc = "recv") => Untouched(b)]_vars

\* C25 witness: the idle status of one command closed and removed its entry
\* while the entry of another command is in the table, its channel open.
C25_Witness ==
  \E a, b \in Ids :
     /\ a # b
     /\ IdleSeen(a) /\ chClosed[NewChan(a)] /\ a \notin DOMAIN ioChannels
     /\ b \in DOMAIN ioChannels /\ ~chClosed[NewChan(b)]
     /\ Alive

\* C26: once the drain loop has ended, every channel still in the routing
\* table is eventually closed.
C26_ExitClosesChannels ==
  (pollPc = "exited") ~> (\A id \in DOMAIN ioChannels : chClosed[ioChannels[id]])

====
